---- MODULE Spec2Model ----
(***************************************************************************)
(* A model of the ink Stream shared object (stream.ts) replicated between *)
(* clients through an ordering service, and of the fluid-static container *)
(* facade (FluidStatic.ts / containerCode.ts).                             *)
(***************************************************************************)
EXTENDS Integers, Sequences, FiniteSets, TLC

(***************************************************************************)
(* Bounds of the model.                                                    *)
(***************************************************************************)
\* total number of submitOp calls over all clients
MaxOps == 2
\* total number of dropped connections over all clients
MaxDrops == 1
\* number of createContainer / getContainer calls
MaxOpens == 2
\* number of FluidContainer.createDataObject calls made while the document is
\* being created and opened
MaxCreates == 1
\* number of FluidContainer.createDataObject calls on an opened container
MaxCalls == 2
\* number of FluidContainer.getDataObject calls
MaxGets == 2
\* number of Fluid.init calls
MaxInits == 2
\* number of requests sent to the container directly
MaxRequests == 3
\* number of messages the delivery layer hands over out of order
MaxStrays == 1

Clients == {"c1", "c2"}

\* the ids of the ink layers: a client draws its own layer (the id of a layer is
\* made up by the client that starts the stroke)
Keys == {"a", "b"}

LayerOf(c) == IF c = "c1" THEN "a" ELSE "b"

VARIABLES
    life,        \* life[c]: Uninitialized / Loading / Ready
    ink,         \* ink[c]: Stream.inkSnapshot of client c
    pendingOps,  \* pendingOps[c]: contents of the local messages not yet acknowledged
    connected,   \* connected[c]: whether c holds a connection
    epoch,       \* epoch[c]: number of the connection epoch; the client id is <<c, epoch[c]>>
    outbox,      \* outbox[c]: messages of c on their way to the ordering service
    log,         \* the sequenced messages; the sequenceNumber is the index
    seen,        \* seen[c]: sequenceNumber of the last message c processed
    storage,     \* the stored snapshot: its blobs and the sequenceNumber it was taken at
    base,        \* base[c]: sequenceNumber of the stored header c loaded, -1 when it loaded none
    submitted,   \* number of submitOp calls so far
    failed,      \* failed[c]: processContent of c has thrown to its caller
    strays       \* number of messages delivered out of order so far

streamVars == <<life, ink, pendingOps, connected, epoch, outbox, log, seen, storage, base,
                submitted, failed, strays>>

VARIABLES
    doc,         \* the document in the service: whether it is attached, and its root data stores
    opens,       \* opens[o]: the o-th createContainer / getContainer call
    creates,     \* creates[d]: the d-th createDataObject call
    requests,    \* the requests createDataObject sent to the container, in order
    gets,        \* gets[g]: the g-th getDataObject call
    globalFluid, \* the module variable globalFluid: "none" for undefined, else its service
    inits,       \* the Fluid.init calls so far: the service handed in and the error thrown
    routed       \* the requests routed by the container's handlers, with their answers

containerVars == <<doc, opens, creates, requests, gets, globalFluid, inits, routed>>

vars == <<streamVars, containerVars>>

(***************************************************************************)
(* The ink snapshot: ISnapshot = { layers, layerIndex }.                    *)
(* layerIndex maps a layer id to its position in layers (1-based here).     *)
(***************************************************************************)
NoInk == [undefined |-> TRUE]

NoIndex == [k \in {} |-> 0]

emptySnapshot == [layers |-> <<>>, layerIndex |-> NoIndex]

\* the operations a client can submit, an IDelta holding one IOperation: clear
\* the ink, start a layer (stylus down), add to a layer (stylus move or up)
Ops == {[type |-> "clear", id |-> "-"]}
         \cup {[type |-> t, id |-> k] : t \in {"down", "move"}, k \in Keys}

OpsOf(c) == {op \in Ops : op.type = "clear" \/ op.id = LayerOf(c)}

\* Snapshot.Clone: a copy of the layers and of the index
Clone(data) == [layers |-> data.layers, layerIndex |-> data.layerIndex]

\* Snapshot.apply: clear empties the snapshot; a stylus-down adds a layer at the
\* end and indexes it; any other stylus operation is added to the layer its id
\* names, when there is one
Apply(snap, op) ==
    CASE op.type = "clear" -> emptySnapshot
      [] op.type = "down" ->
            [layers |-> Append(snap.layers, [id |-> op.id, operations |-> <<op.type>>]),
             layerIndex |-> [k \in DOMAIN snap.layerIndex \cup {op.id} |->
                                IF k = op.id THEN Len(snap.layers) + 1
                                             ELSE snap.layerIndex[k]]]
      [] OTHER ->
            IF op.id \in DOMAIN snap.layerIndex
            THEN [snap EXCEPT !.layers[snap.layerIndex[op.id]].operations =
                                   Append(@, op.type)]
            ELSE snap

\* Stream.initialize
initialize(data) == Clone(data)

\* Stream.getLayers, Stream.getLayer
getLayers(snap) == snap.layers

getLayer(snap, key) == snap.layers[snap.layerIndex[key]]

(***************************************************************************)
(* JSON text of a snapshot, as a sequence of character codes.  Layer ids   *)
(* and operation types are written as one character each, an index as one  *)
(* digit (0-based, as in the array of the program).                        *)
(***************************************************************************)
LB == 91
RB == 93
LC == 123
RC == 125
COMMA == 44
Digit0 == 48

CodeOf(x) ==
    CASE x = "a" -> 97 [] x = "b" -> 98 [] x = "clear" -> 99
      [] x = "down" -> 100 [] x = "move" -> 109 [] OTHER -> 45

KeyCodes == {CodeOf(k) : k \in Keys}
TypeCodes == {CodeOf(t) : t \in {"down", "move"}}

KeyOf(n) == CHOOSE k \in Keys : CodeOf(k) = n
TypeOf(n) == CHOOSE t \in {"down", "move"} : CodeOf(t) = n

RECURSIVE StringifyOps(_)
StringifyOps(ops) ==
    IF ops = <<>> THEN <<>> ELSE <<CodeOf(Head(ops))>> \o StringifyOps(Tail(ops))

RECURSIVE StringifyLayers(_)
StringifyLayers(layers) ==
    IF layers = <<>> THEN <<>>
    ELSE <<LC, CodeOf(Head(layers).id)>> \o StringifyOps(Head(layers).operations)
            \o <<RC>> \o StringifyLayers(Tail(layers))

RECURSIVE StringifyIndex(_, _)
StringifyIndex(index, keys) ==
    IF keys = {} THEN <<>>
    ELSE LET k == CHOOSE x \in keys : \A y \in keys : CodeOf(x) <= CodeOf(y)
         IN  <<CodeOf(k), Digit0 + index[k] - 1>> \o StringifyIndex(index, keys \ {k})

\* JSON.stringify(this.inkSnapshot)
JSONstringify(snap) ==
    <<LC, LB>> \o StringifyLayers(snap.layers) \o <<RB, COMMA, LC>>
        \o StringifyIndex(snap.layerIndex, DOMAIN snap.layerIndex) \o <<RC, RC>>

ParseError == [error |-> "SyntaxError"]

At(bs, i) == IF i \in 1..Len(bs) THEN bs[i] ELSE -1

RECURSIVE ParseOps(_, _, _)
ParseOps(bs, i, acc) ==
    IF At(bs, i) \in TypeCodes
    THEN ParseOps(bs, i + 1, Append(acc, TypeOf(At(bs, i))))
    ELSE [ops |-> acc, next |-> i]

RECURSIVE ParseLayers(_, _, _)
ParseLayers(bs, i, acc) ==
    IF At(bs, i) = LC /\ At(bs, i + 1) \in KeyCodes
    THEN LET r == ParseOps(bs, i + 2, <<>>)
         IN  IF At(bs, r.next) = RC
             THEN ParseLayers(bs, r.next + 1,
                      Append(acc, [id |-> KeyOf(At(bs, i + 1)), operations |-> r.ops]))
             ELSE [ok |-> FALSE, layers |-> acc, next |-> i]
    ELSE [ok |-> TRUE, layers |-> acc, next |-> i]

RECURSIVE ParseIndex(_, _, _)
ParseIndex(bs, i, acc) ==
    IF At(bs, i) \in KeyCodes /\ At(bs, i + 1) \in Digit0..(Digit0 + 9)
    THEN ParseIndex(bs, i + 2,
             [k \in DOMAIN acc \cup {KeyOf(At(bs, i))} |->
                 IF k = KeyOf(At(bs, i)) THEN At(bs, i + 1) - Digit0 + 1 ELSE acc[k]])
    ELSE [index |-> acc, next |-> i]

\* JSON.parse of the text of a snapshot; anything else is a SyntaxError
JSONparse(bs) ==
    IF At(bs, 1) = LC /\ At(bs, 2) = LB
    THEN LET l == ParseLayers(bs, 3, <<>>)
         IN  IF l.ok /\ At(bs, l.next) = RB /\ At(bs, l.next + 1) = COMMA
                     /\ At(bs, l.next + 2) = LC
             THEN LET x == ParseIndex(bs, l.next + 3, NoIndex)
                  IN  IF At(bs, x.next) = RC /\ At(bs, x.next + 1) = RC
                            /\ x.next + 1 = Len(bs)
                      THEN [layers |-> l.layers, layerIndex |-> x.index]
                      ELSE ParseError
             ELSE ParseError
    ELSE ParseError

(***************************************************************************)
(* Base64: three bytes are four sextets; Pad fills the last group.         *)
(***************************************************************************)
Pad == 64

RECURSIVE toBase64(_)
toBase64(bytes) ==
    CASE Len(bytes) = 0 -> <<>>
      [] Len(bytes) = 1 ->
            <<bytes[1] \div 4, (bytes[1] % 4) * 16, Pad, Pad>>
      [] Len(bytes) = 2 ->
            <<bytes[1] \div 4, (bytes[1] % 4) * 16 + bytes[2] \div 16,
              (bytes[2] % 16) * 4, Pad>>
      [] OTHER ->
            <<bytes[1] \div 4, (bytes[1] % 4) * 16 + bytes[2] \div 16,
              (bytes[2] % 16) * 4 + bytes[3] \div 64, bytes[3] % 64>>
                \o toBase64(SubSeq(bytes, 4, Len(bytes)))

IsSextet(v) == v \in 0..63

RECURSIVE fromSextets(_)
fromSextets(sx) ==
    CASE Len(sx) <= 1 -> <<>>
      [] Len(sx) = 2 -> <<sx[1] * 4 + sx[2] \div 16>>
      [] Len(sx) = 3 -> <<sx[1] * 4 + sx[2] \div 16, (sx[2] % 16) * 16 + sx[3] \div 4>>
      [] OTHER ->
            <<sx[1] * 4 + sx[2] \div 16, (sx[2] % 16) * 16 + sx[3] \div 4,
              (sx[3] % 4) * 64 + sx[4]>> \o fromSextets(SubSeq(sx, 5, Len(sx)))

\* Buffer.from(text, "base64"): characters outside the alphabet are skipped
fromBase64(text) == fromSextets(SelectSeq(text, IsSextet))

\* Buffer.from(text, "utf-8") and buffer.toString("utf-8"): the texts here are
\* ASCII, one byte per character; a byte above 127 is no ASCII character
fromUtf8(text) == text

toUtf8(bytes) == bytes

(***************************************************************************)
(* The storage service: a blob is kept as bytes, written from its contents *)
(* in the encoding the tree entry declares, and read back as base64.       *)
(***************************************************************************)
snapshotFileName == "header"

NoBlobs == [p \in {} |-> <<>>]

WriteTree(tree) ==
    [p \in {e.path : e \in tree.entries} |->
        LET e == CHOOSE x \in tree.entries : x.path = p
        IN  IF e.value.encoding = "base64" THEN fromBase64(e.value.contents)
                                           ELSE fromUtf8(e.value.contents)]

\* storage.read(path): undefined (falsy, as the empty text is) when there is no blob
StorageRead(blobs, path) == IF path \in DOMAIN blobs THEN toBase64(blobs[path]) ELSE <<>>

\* snapshotContent declaring the JSON text as base64
snapshotContent_Base64(snap) ==
    [entries |-> {[mode |-> "File", path |-> snapshotFileName, type |-> "Blob",
                   value |-> [contents |-> JSONstringify(snap), encoding |-> "base64"]]},
     sha |-> "null"]

\* Stream.snapshotContent
snapshotContent(snap) ==
    [entries |-> {[mode |-> "File", path |-> snapshotFileName, type |-> "Blob",
                   value |-> [contents |-> JSONstringify(snap), encoding |-> "utf-8"]]},
     sha |-> "null"]

\* loadContent reading the header as utf-8 text, without the base64 decoding
loadContent_AsUtf8(blobs) ==
    LET header == StorageRead(blobs, snapshotFileName)
        data == IF header # <<>> THEN JSONparse(toUtf8(header)) ELSE emptySnapshot
    IN  IF data = ParseError THEN ParseError ELSE initialize(data)

\* loadContent with another default than emptySnapshot for a missing header
loadContent_NoDefault(blobs) ==
    LET header == StorageRead(blobs, snapshotFileName)
        data == IF header # <<>> THEN JSONparse(toUtf8(fromBase64(header)))
                                 ELSE Apply(emptySnapshot, [type |-> "down", id |-> "a"])
    IN  IF data = ParseError THEN ParseError ELSE initialize(data)

\* Stream.loadContent: the data handed to initialize
loadContent(blobs) ==
    LET header == StorageRead(blobs, snapshotFileName)
        data == IF header # <<>> THEN JSONparse(toUtf8(fromBase64(header)))
                                 ELSE emptySnapshot
    IN  IF data = ParseError THEN ParseError ELSE initialize(data)

\* Stream.initializeContent
initializeContent == initialize(emptySnapshot)

(***************************************************************************)
(* fluid-static: data object classes, container configurations.            *)
(***************************************************************************)
\* the factory types of the data object classes of the application
Types == {"X", "Y"}
Ids == {"a", "b"}

Opens == 1..MaxOpens
Creates == 1..MaxCreates
Calls == 1..MaxCalls
Gets == 1..MaxGets

\* the container services an application can hand to Fluid.init; "undefined" is
\* a call without one
Services == {"s1", "s2"}

\* ContainerConfig.dataObjects: no class, one, two different ones, the same one twice
DataObjectLists == {<<>>, <<"X">>, <<"X", "Y">>, <<"X", "X">>}

RECURSIVE SeqsUpTo(_, _)
SeqsUpTo(S, n) ==
    IF n = 0 THEN {<<>>}
    ELSE SeqsUpTo(S, n - 1)
            \cup {Append(q, x) : q \in {r \in SeqsUpTo(S, n - 1) : Len(r) = n - 1}, x \in S}

\* ContainerCreateConfig.initialDataObjects: (id, class) pairs in some order, an
\* id being the key of one entry
InitialLists ==
    {q \in SeqsUpTo([id : Ids, type : Types], Cardinality(Ids)) :
        \A i, j \in DOMAIN q : q[i].id = q[j].id => i = j}

Configs == [dataObjects : DataObjectLists, initialDataObjects : InitialLists]

\* getRegistryEntries without its check of the length
getRegistryEntries_NoCheck(dataObjects) ==
    [threw |-> FALSE, entries |-> [i \in 1..Len(dataObjects) |-> dataObjects[i]]]

\* FluidInstance.getRegistryEntries: undefined (it throws) for an empty list
getRegistryEntries(dataObjects) ==
    IF Len(dataObjects) = 0
    THEN [threw |-> TRUE, entries |-> <<>>]
    ELSE [threw |-> FALSE, entries |-> [i \in 1..Len(dataObjects) |-> dataObjects[i]]]

RECURSIVE CollectTypes(_, _)
CollectTypes(entries, types) ==
    IF entries = <<>> THEN [threw |-> FALSE, types |-> types]
    ELSE IF Head(entries) \in types THEN [threw |-> TRUE, types |-> types]
    ELSE CollectTypes(Tail(entries), types \cup {Head(entries)})

\* FluidContainer.constructor: the set of types, or the throw for a repeated type
FluidContainer(namedRegistryEntries) == CollectTypes(namedRegistryEntries, {})

\* the arguments FluidInstance.createContainer hands to getContainer of
\* @fluid-experimental/get-container
createContainerArgs(registryEntries, config) ==
    [registryEntries |-> registryEntries,
     initialDataObjects |-> config.initialDataObjects,
     createNew |-> TRUE]

\* getContainer calling as createContainer does
getContainerArgs_AsCreate(registryEntries, config) ==
    [registryEntries |-> registryEntries,
     initialDataObjects |-> config.initialDataObjects,
     createNew |-> TRUE]

\* the arguments FluidInstance.getContainer hands to it: no initial data objects
getContainerArgs(registryEntries, config) ==
    [registryEntries |-> registryEntries,
     initialDataObjects |-> <<>>,
     createNew |-> FALSE]

\* the loop without its await
awaitCreated_NoAwait(started, completed) == TRUE

\* the await in the loop of containerInitializingFirstTime: the loop goes on (to
\* the next entry, or to its end) once every creation it started has completed
awaitCreated(started, completed) == completed = 1..started

\* Fluid.init without its check of globalFluid
init_Overwrite(current, getContainerService) ==
    IF getContainerService = "undefined"
    THEN [globalFluid |-> current, error |-> "NoContainerService"]
    ELSE [globalFluid |-> getContainerService, error |-> "none"]

\* Fluid.init: the new value of globalFluid and the error thrown
init(current, getContainerService) ==
    IF current # "none"
    THEN [globalFluid |-> current, error |-> "AlreadyInitialized"]
    ELSE IF getContainerService = "undefined"
    THEN [globalFluid |-> current, error |-> "NoContainerService"]
    ELSE [globalFluid |-> getContainerService, error |-> "none"]

\* the test Fluid.createContainer and Fluid.getContainer make of globalFluid
initialized(current) == current # "none"

\* createDataObject without its check
createDataObjectAllowed_Always(types, type) == TRUE

\* the registered-type check of FluidContainer.createDataObject
createDataObjectAllowed(types, type) == type \in types

\* the test of createRequestHandler without its look at the first segment
isCreateRequest_AnyThree(pathParts) == Len(pathParts) = 3

\* createRequestHandler: the request is a creation when its path is create/type/id
isCreateRequest(pathParts) == Len(pathParts) = 3 /\ pathParts[1] = "create"

\* RequestParser.createSubRequest: the request of the path from a segment on
\* (segments counted from 0)
createSubRequest(pathParts, startingPathIndex) ==
    SubSeq(pathParts, startingPathIndex + 1, Len(pathParts))

\* the paths of the requests sent to the container
Paths ==
    {<<"a">>, <<"b">>, <<"create", "X", "a">>, <<"create", "X", "b">>, <<"create", "X">>,
     <<"other", "X", "a">>, <<"create", "X", "a", "b">>}

(***************************************************************************)
(* The shared object of one client, as the record its handlers work on.    *)
(***************************************************************************)
Message(clientId, content) == [clientId |-> clientId, type |-> "op", contents |-> content]

Local(c) ==
    [inkSnapshot |-> ink[c], pending |-> pendingOps[c], sent |-> outbox[c],
     connected |-> connected[c], clientId |-> <<c, epoch[c]>>, threw |-> FALSE]

\* the contents of a message no IDelta can be read from
Garbage == [type |-> "unknown", id |-> "-"]

\* Snapshot.apply throws for contents it cannot interpret
ApplyThrows(contents) == contents \notin Ops

\* SharedObject.submitLocalMessage: the message joins the pending list, and is
\* transmitted when the client is connected
submitLocalMessage(this, content) ==
    [this EXCEPT !.pending = Append(@, content),
                 !.sent = IF this.connected
                          THEN Append(@, Message(this.clientId, content)) ELSE @]

\* submitOp that only sends, leaving the ink to the echo
submitOp_SendOnly(this, op) == submitLocalMessage(this, op)

\* Stream.submitOp
submitOp(this, op) ==
    LET sent == submitLocalMessage(this, op)
    IN  [sent EXCEPT !.inkSnapshot = Apply(@, op)]

\* processContent without the test of `local`: the echo is applied as a remote
\* message is
processContent_ApplyEcho(this, message, local) ==
    IF message.type = "op"
    THEN [this EXCEPT !.inkSnapshot = Apply(@, message.contents)]
    ELSE this

\* processContent catching what apply throws and going on
processContent_Swallow(this, message, local) ==
    IF message.type = "op" /\ ~local /\ ~ApplyThrows(message.contents)
    THEN [this EXCEPT !.inkSnapshot = Apply(@, message.contents)]
    ELSE this

\* Stream.processContent: what apply throws leaves the method, there is no catch
processContent(this, message, local) ==
    IF message.type = "op" /\ ~local
    THEN IF ApplyThrows(message.contents)
         THEN [this EXCEPT !.threw = TRUE]
         ELSE [this EXCEPT !.inkSnapshot = Apply(@, message.contents)]
    ELSE this

\* SharedObject.process: a message of this client's own identity acknowledges the
\* head of the pending list; every message goes to processContent
process(this, message) ==
    LET local == message.clientId = this.clientId
        acked == IF local /\ this.pending # <<>>
                 THEN [this EXCEPT !.pending = Tail(@)] ELSE this
    IN  processContent(acked, message, local)

RECURSIVE onConnectContent_Reversed(_, _)
\* onConnectContent walking the pending list from its end
onConnectContent_Reversed(this, pending) ==
    IF pending = <<>> THEN this
    ELSE onConnectContent_Reversed(submitLocalMessage(this, pending[Len(pending)]),
                                   SubSeq(pending, 1, Len(pending) - 1))

RECURSIVE onConnectContent_Reapply(_, _)
\* onConnectContent submitting each pending operation as submitOp does
onConnectContent_Reapply(this, pending) ==
    IF pending = <<>> THEN this
    ELSE onConnectContent_Reapply(submitOp(this, Head(pending)), Tail(pending))

\* onConnectContent that sends nothing again
onConnectContent_Drop(this, pending) == this

RECURSIVE onConnectContent(_, _)
\* Stream.onConnectContent
onConnectContent(this, pending) ==
    IF pending = <<>> THEN this
    ELSE onConnectContent(submitLocalMessage(this, Head(pending)), Tail(pending))

\* SharedObject on a new connection: the pending contents are taken out of the
\* list and handed to onConnectContent under the new client id
onConnect(this, newClientId) ==
    onConnectContent([this EXCEPT !.pending = <<>>, !.connected = TRUE,
                                  !.clientId = newClientId],
                     this.pending)

\* the variables of client c after a handler left its object as `this`
Store(c, this) ==
    /\ ink' = [ink EXCEPT ![c] = this.inkSnapshot]
    /\ pendingOps' = [pendingOps EXCEPT ![c] = this.pending]
    /\ outbox' = [outbox EXCEPT ![c] = this.sent]

(***************************************************************************)
(* The state machine of the replicated Stream.                             *)
(***************************************************************************)
InitStream ==
    /\ life = [c \in Clients |-> "Uninitialized"]
    /\ ink = [c \in Clients |-> NoInk]
    /\ pendingOps = [c \in Clients |-> <<>>]
    /\ connected = [c \in Clients |-> FALSE]
    /\ epoch = [c \in Clients |-> 0]
    /\ outbox = [c \in Clients |-> <<>>]
    /\ log = <<>>
    /\ seen = [c \in Clients |-> 0]
    /\ storage = [blobs |-> NoBlobs, sequenceNumber |-> 0]
    /\ base = [c \in Clients |-> -1]
    /\ submitted = 0
    /\ failed = [c \in Clients |-> FALSE]
    /\ strays = 0

\* MapExtension.create: the first client creates the object (initializeLocal)
Create(c) ==
    /\ \A d \in Clients : life[d] = "Uninitialized"
    /\ life' = [life EXCEPT ![c] = "Ready"]
    /\ ink' = [ink EXCEPT ![c] = initializeContent]
    /\ connected' = [connected EXCEPT ![c] = TRUE]
    /\ epoch' = [epoch EXCEPT ![c] = 1]
    /\ UNCHANGED <<containerVars, failed, strays, pendingOps, outbox, log, seen, storage, base, submitted>>

\* MapExtension.load: another client starts loading the object
StartLoad(c) ==
    /\ life[c] = "Uninitialized"
    /\ \E d \in Clients : life[d] = "Ready"
    /\ life' = [life EXCEPT ![c] = "Loading"]
    /\ UNCHANGED <<containerVars, failed, strays, ink, pendingOps, connected, epoch, outbox, log, seen, storage, base,
                   submitted>>

\* the read of the header returns: loadContent finishes, and the object then
\* receives the messages sequenced after the snapshot it loaded
FinishLoad(c) ==
    /\ life[c] = "Loading"
    /\ loadContent(storage.blobs) # ParseError
    /\ life' = [life EXCEPT ![c] = "Ready"]
    /\ ink' = [ink EXCEPT ![c] = loadContent(storage.blobs)]
    /\ seen' = [seen EXCEPT ![c] = storage.sequenceNumber]
    /\ base' = [base EXCEPT ![c] =
                   IF snapshotFileName \in DOMAIN storage.blobs
                   THEN storage.sequenceNumber ELSE -1]
    /\ connected' = [connected EXCEPT ![c] = TRUE]
    /\ epoch' = [epoch EXCEPT ![c] = 1]
    /\ UNCHANGED <<containerVars, failed, strays, pendingOps, outbox, log, storage, submitted>>

SubmitOp(c, op) ==
    /\ life[c] = "Ready"
    /\ submitted < MaxOps
    /\ Store(c, submitOp(Local(c), op))
    /\ submitted' = submitted + 1
    /\ UNCHANGED <<containerVars, failed, strays, life, connected, epoch, log, seen, storage, base>>

\* the ordering service takes the next message of a client and gives it the next
\* sequenceNumber
Sequence(c) ==
    /\ outbox[c] # <<>>
    /\ log' = Append(log, Head(outbox[c]))
    /\ outbox' = [outbox EXCEPT ![c] = Tail(@)]
    /\ UNCHANGED <<containerVars, failed, strays, life, ink, pendingOps, connected, epoch, seen, storage, base, submitted>>

\* the next sequenced message is delivered to a connected client
Deliver(c) ==
    /\ life[c] = "Ready"
    /\ connected[c]
    /\ seen[c] < Len(log)
    /\ LET this == process(Local(c), log[seen[c] + 1])
       IN  /\ Store(c, this)
           /\ failed' = [failed EXCEPT ![c] = @ \/ this.threw]
    /\ seen' = [seen EXCEPT ![c] = @ + 1]
    /\ UNCHANGED <<containerVars, strays, life, connected, epoch, log, storage, base, submitted>>

\* the delivery layer hands c a sequenced message out of order: one it has
\* processed already, or one beyond the next
Misdeliver(c, n) ==
    /\ life[c] = "Ready"
    /\ connected[c]
    /\ n \in DOMAIN log
    /\ n # seen[c] + 1
    /\ strays < MaxStrays
    /\ strays' = strays + 1
    /\ LET this == process(Local(c), log[n])
       IN  /\ Store(c, this)
           /\ failed' = [failed EXCEPT ![c] = @ \/ this.threw]
    /\ seen' = [seen EXCEPT ![c] = n]
    /\ UNCHANGED <<containerVars, life, connected, epoch, log, storage, base, submitted>>

\* the ordering service sequences a message of a peer outside the model, whose
\* contents are any payload
SequenceForeign(contents) ==
    /\ Len(log) < MaxOps
    /\ log' = Append(log, Message(<<"peer", 1>>, contents))
    /\ UNCHANGED <<containerVars, failed, strays, life, ink, pendingOps, connected, epoch, outbox, seen,
                   storage, base, submitted>>

\* the connections dropped so far: each reconnect starts a new epoch
RECURSIVE DropsOf(_)
DropsOf(cs) ==
    IF cs = {} THEN 0
    ELSE LET c == CHOOSE x \in cs : TRUE
         IN  (IF life[c] # "Ready" THEN 0
              ELSE IF connected[c] THEN epoch[c] - 1 ELSE epoch[c]) + DropsOf(cs \ {c})

\* the connection of c drops: of the messages on their way to the ordering service
\* the first `kept` still arrive, the others are lost
Disconnect(c, kept) ==
    /\ life[c] = "Ready"
    /\ connected[c]
    /\ DropsOf(Clients) < MaxDrops
    /\ kept \in 0..Len(outbox[c])
    /\ connected' = [connected EXCEPT ![c] = FALSE]
    /\ outbox' = [outbox EXCEPT ![c] = SubSeq(@, 1, kept)]
    /\ UNCHANGED <<containerVars, failed, strays, life, ink, pendingOps, epoch, log, seen, storage, base, submitted>>

Reconnect(c) ==
    /\ life[c] = "Ready"
    /\ ~connected[c]
    /\ connected' = [connected EXCEPT ![c] = TRUE]
    /\ epoch' = [epoch EXCEPT ![c] = @ + 1]
    /\ Store(c, onConnect(Local(c), <<c, epoch[c] + 1>>))
    /\ UNCHANGED <<containerVars, failed, strays, life, log, seen, storage, base, submitted>>

\* a client snapshots the object: the tree of snapshotContent is written to storage
TakeSnapshot(c) ==
    /\ life[c] = "Ready"
    /\ seen[c] >= storage.sequenceNumber
    /\ storage' = [blobs |-> WriteTree(snapshotContent(ink[c])), sequenceNumber |-> seen[c]]
    /\ storage' # storage
    /\ UNCHANGED <<containerVars, failed, strays, life, ink, pendingOps, connected, epoch, outbox, log, seen, base, submitted>>

(***************************************************************************)
(* The state machine of a document opened and filled through fluid-static. *)
(***************************************************************************)
NoArgs == [registryEntries |-> <<>>, initialDataObjects |-> <<>>, createNew |-> FALSE]

IdleOpen ==
    [pc |-> "idle", kind |-> "none", dataObjects |-> <<>>, args |-> NoArgs, started |-> 0,
     completed |-> {}, types |-> {}, error |-> "none"]

IdleCreate ==
    [pc |-> "idle", handle |-> 0, type |-> "none", id |-> "none", error |-> "none",
     instance |-> 0]

IdleGet == [pc |-> "idle", handle |-> 0, id |-> "none", error |-> "none", instance |-> 0]

InitContainer ==
    /\ doc = [attached |-> FALSE, stores |-> <<>>]
    /\ opens = [o \in Opens |-> IdleOpen]
    /\ creates = [d \in Calls |-> IdleCreate]
    /\ requests = <<>>
    /\ gets = [g \in Gets |-> IdleGet]
    /\ routed = <<>>

\* the module as loaded: globalFluid is undefined
InitGlobal ==
    /\ globalFluid = "none"
    /\ inits = <<>>

\* the application has called Fluid.init with its container service
InitInitialized ==
    /\ globalFluid = "s1"
    /\ inits = <<[service |-> "s1", error |-> "none"]>>

StoreIds(stores) == {stores[i].id : i \in DOMAIN stores}

\* the live data store of an id: the position of the last one created with it,
\* 0 when there is none
Lookup(stores, id) ==
    IF id \in StoreIds(stores)
    THEN CHOOSE i \in DOMAIN stores :
            stores[i].id = id /\ \A j \in DOMAIN stores : stores[j].id = id => j <= i
    ELSE 0

\* FluidContainer.getDataObject: the live data object of the id, 0 for none
getDataObject(stores, id) == Lookup(stores, id)

\* runtime.createRootDataStore(type, id) can complete: the type is in the registry
\* of the runtime
CanCreateRoot(registryEntries, type) ==
    \E i \in DOMAIN registryEntries : registryEntries[i] = type

\* Fluid.init: throws when globalFluid is set, and the FluidInstance constructor
\* throws for an undefined service; otherwise globalFluid becomes the instance
FluidInit(getContainerService) ==
    /\ Len(inits) < MaxInits
    /\ LET r == init(globalFluid, getContainerService)
       IN  /\ globalFluid' = r.globalFluid
           /\ inits' = Append(inits, [service |-> getContainerService, error |-> r.error])
    /\ UNCHANGED <<streamVars, routed, doc, opens, creates, requests, gets>>

\* Fluid.createContainer and FluidInstance.createContainer, up to the call of
\* getContainer
CallCreateContainer(o, config) ==
    /\ opens[o].pc = "idle"
    /\ IF o = 1 THEN TRUE ELSE opens[o - 1].pc # "idle"
    /\ ~doc.attached
    /\ \A p \in Opens : opens[p].kind # "createContainer"
    /\ LET r == getRegistryEntries(config.dataObjects)
           call == [IdleOpen EXCEPT !.kind = "createContainer",
                                    !.dataObjects = config.dataObjects]
       IN  opens' = [opens EXCEPT ![o] =
               IF ~initialized(globalFluid)
               THEN [call EXCEPT !.pc = "rejected", !.error = "NotInitialized"]
               ELSE IF r.threw
               THEN [call EXCEPT !.pc = "rejected", !.error = "NoDataObjects"]
               ELSE [call EXCEPT !.pc = "opening",
                                 !.args = createContainerArgs(r.entries, config)]]
    /\ UNCHANGED <<streamVars, routed, gets, globalFluid, inits, doc, creates, requests>>

\* the initialDataObjects the document was created with
CreatedWith ==
    {opens[p].args.initialDataObjects : p \in {q \in Opens : opens[q].kind = "createContainer"}}

\* Fluid.getContainer and FluidInstance.getContainer on the existing document, up to the call of
\* getContainer; the application hands it the configuration of the creation, or one
\* without initialDataObjects
CallGetContainer(o, config) ==
    /\ opens[o].pc = "idle"
    /\ config.initialDataObjects \in CreatedWith \cup {<<>>}
    /\ IF o = 1 THEN TRUE ELSE opens[o - 1].pc # "idle"
    /\ initialized(globalFluid) => doc.attached
    /\ LET r == getRegistryEntries(config.dataObjects)
           call == [IdleOpen EXCEPT !.kind = "getContainer",
                                    !.dataObjects = config.dataObjects]
       IN  opens' = [opens EXCEPT ![o] =
               IF ~initialized(globalFluid)
               THEN [call EXCEPT !.pc = "rejected", !.error = "NotInitialized"]
               ELSE IF r.threw
               THEN [call EXCEPT !.pc = "rejected", !.error = "NoDataObjects"]
               ELSE [call EXCEPT !.pc = "opening",
                                 !.args = getContainerArgs(r.entries, config)]]
    /\ UNCHANGED <<streamVars, routed, gets, globalFluid, inits, doc, creates, requests>>

\* containerInitializingFirstTime, run for a new container: the loop reaches the
\* next entry and calls createRootDataStore
EagerStart(o) ==
    /\ opens[o].pc = "opening"
    /\ opens[o].args.createNew
    /\ opens[o].started < Len(opens[o].args.initialDataObjects)
    /\ awaitCreated(opens[o].started, opens[o].completed)
    /\ opens' = [opens EXCEPT ![o].started = @ + 1]
    /\ UNCHANGED <<streamVars, routed, gets, globalFluid, inits, doc, creates, requests>>

\* the createRootDataStore of entry i completes: a root data store is created, or
\* the creation fails; with an id already in use either can happen
EagerDone(o, i, collide) ==
    /\ i \in (1..opens[o].started) \ opens[o].completed
    /\ LET e == opens[o].args.initialDataObjects[i]
           fails == \/ ~CanCreateRoot(opens[o].args.registryEntries, e.type)
                    \/ e.id \in StoreIds(doc.stores) /\ collide = "fail"
       IN  /\ e.id \notin StoreIds(doc.stores) => collide = "fail"
           /\ opens' = [opens EXCEPT
                  ![o].completed = @ \cup {i},
                  ![o].pc = IF fails /\ @ = "opening" THEN "rejected" ELSE @,
                  ![o].error = IF fails /\ opens[o].pc = "opening"
                               THEN "CreateFailed" ELSE @]
           /\ doc' = IF fails THEN doc
                     ELSE [doc EXCEPT !.stores =
                              Append(@, [id |-> e.id, type |-> e.type,
                                         by |-> opens[o].kind, call |-> o])]
    /\ UNCHANGED <<streamVars, routed, gets, globalFluid, inits, creates, requests>>

\* getContainer resolves (a new container is attached once its first-time
\* initialisation has returned), and the FluidContainer is constructed
FinishOpen(o) ==
    /\ opens[o].pc = "opening"
    /\ opens[o].args.createNew =>
          /\ opens[o].started = Len(opens[o].args.initialDataObjects)
          /\ awaitCreated(opens[o].started, opens[o].completed)
    /\ doc' = [doc EXCEPT !.attached = TRUE]
    /\ LET c == FluidContainer(opens[o].args.registryEntries)
       IN  opens' = [opens EXCEPT
                  ![o].pc = IF c.threw THEN "rejected" ELSE "resolved",
                  ![o].error = IF c.threw THEN "DuplicateType" ELSE @,
                  ![o].types = IF c.threw THEN {} ELSE c.types]
    /\ UNCHANGED <<streamVars, routed, gets, globalFluid, inits, creates, requests>>

\* a createDataObject that registers a type it does not know and goes on
CallCreateDataObject_AddsType(d, o, type, id) ==
    /\ creates[d].pc = "idle"
    /\ IF d = 1 THEN TRUE ELSE creates[d - 1].pc # "idle"
    /\ opens[o].pc = "resolved"
    /\ requests' = Append(requests, [call |-> d, url |-> <<"create", type, id>>])
    /\ creates' = [creates EXCEPT ![d] =
           [IdleCreate EXCEPT !.pc = "requested", !.handle = o, !.type = type, !.id = id]]
    /\ opens' = [opens EXCEPT ![o].types = @ \cup {type}]
    /\ UNCHANGED <<streamVars, routed, gets, globalFluid, inits, doc>>

\* FluidContainer.createDataObject, up to the request it awaits
CallCreateDataObject(d, o, type, id) ==
    /\ creates[d].pc = "idle"
    /\ IF d = 1 THEN TRUE ELSE creates[d - 1].pc # "idle"
    /\ opens[o].pc = "resolved"
    /\ IF createDataObjectAllowed(opens[o].types, type)
       THEN /\ requests' = Append(requests, [call |-> d, url |-> <<"create", type, id>>])
            /\ creates' = [creates EXCEPT ![d] =
                   [IdleCreate EXCEPT !.pc = "requested", !.handle = o, !.type = type,
                                      !.id = id]]
       ELSE /\ requests' = requests
            /\ creates' = [creates EXCEPT ![d] =
                   [IdleCreate EXCEPT !.pc = "rejected", !.handle = o, !.type = type,
                                      !.id = id, !.error = "UnregisteredType"]]
    /\ UNCHANGED <<streamVars, routed, gets, globalFluid, inits, doc, opens>>

\* createRequestHandler: the createRootDataStore of a create request completes
HandleCreate(d, collide) ==
    /\ creates[d].pc = "requested"
    /\ \E r \in {requests[i] : i \in DOMAIN requests} :
          r.call = d /\ isCreateRequest(r.url)
    /\ LET o == creates[d].handle
           fails == \/ ~CanCreateRoot(opens[o].args.registryEntries, creates[d].type)
                    \/ creates[d].id \in StoreIds(doc.stores) /\ collide = "fail"
       IN  /\ creates[d].id \notin StoreIds(doc.stores) => collide = "fail"
           /\ creates' = [creates EXCEPT
                  ![d].pc = IF fails THEN "rejected" ELSE "created",
                  ![d].error = IF fails THEN "CreateFailed" ELSE @]
           /\ doc' = IF fails THEN doc
                     ELSE [doc EXCEPT !.stores =
                              Append(@, [id |-> creates[d].id, type |-> creates[d].type,
                                         by |-> "createDataObject", call |-> d])]
    /\ UNCHANGED <<streamVars, routed, gets, globalFluid, inits, opens, requests>>

\* the request is answered with the object of the id, and createDataObject
\* returns what getDataObject(id) gives
ResolveCreate(d) ==
    /\ creates[d].pc = "created"
    /\ creates' = [creates EXCEPT ![d].pc = "resolved",
                                  ![d].instance = getDataObject(doc.stores, creates[d].id)]
    /\ UNCHANGED <<streamVars, routed, gets, globalFluid, inits, doc, opens, requests>>

\* FluidContainer.getDataObject, up to the lookup it awaits
CallGetDataObject(g, o, id) ==
    /\ gets[g].pc = "idle"
    /\ IF g = 1 THEN TRUE ELSE gets[g - 1].pc # "idle"
    /\ opens[o].pc = "resolved"
    /\ gets' = [gets EXCEPT ![g] = [IdleGet EXCEPT !.pc = "loading", !.handle = o, !.id = id]]
    /\ UNCHANGED <<streamVars, routed, globalFluid, inits, doc, opens, creates, requests>>

\* getObjectWithIdFromContainer answers, and getDataObject returns its answer or
\* fails with its error
FinishGetDataObject(g) ==
    /\ gets[g].pc = "loading"
    /\ LET found == getDataObject(doc.stores, gets[g].id)
       IN  gets' = [gets EXCEPT
                  ![g].pc = IF found = 0 THEN "rejected" ELSE "resolved",
                  ![g].error = IF found = 0 THEN "NotFound" ELSE @,
                  ![g].instance = found]
    /\ UNCHANGED <<streamVars, routed, globalFluid, inits, doc, opens, creates, requests>>

\* innerRequestHandler and runtime.request: the data store the first segment
\* names, 0 when there is none
innerRequestHandler(stores, pathParts) == Lookup(stores, pathParts[1])

\* createRequestHandler: for a create path the data store is created and the
\* request of the id is answered (-1 when the creation throws); any other
\* request is left to the next handler
createRequestHandler(stores, registryEntries, pathParts, collide) ==
    IF isCreateRequest(pathParts)
    THEN LET fails == \/ ~CanCreateRoot(registryEntries, pathParts[2])
                      \/ pathParts[3] \in StoreIds(stores) /\ collide = "fail"
             after == Append(stores, [id |-> pathParts[3], type |-> pathParts[2],
                                      by |-> "request", call |-> 0])
         IN  IF fails
             THEN [handled |-> TRUE, stores |-> stores, response |-> -1]
             ELSE [handled |-> TRUE, stores |-> after,
                   response |-> innerRequestHandler(after, createSubRequest(pathParts, 2))]
    ELSE [handled |-> FALSE, stores |-> stores, response |-> 0]

\* the handlers the runtime factory registers, tried in order
RuntimeRequest(stores, registryEntries, pathParts, collide) ==
    LET first == createRequestHandler(stores, registryEntries, pathParts, collide)
    IN  IF first.handled THEN first
        ELSE [handled |-> TRUE, stores |-> stores,
              response |-> innerRequestHandler(stores, pathParts)]

\* container.request(url) on the opened container
RouteRequest(pathParts, collide) ==
    /\ Len(routed) < MaxRequests
    /\ opens[1].pc = "resolved"
    /\ (Len(pathParts) < 3 \/ pathParts[3] \notin StoreIds(doc.stores)) => collide = "fail"
    /\ LET r == RuntimeRequest(doc.stores, opens[1].args.registryEntries, pathParts, collide)
       IN  /\ doc' = [doc EXCEPT !.stores = r.stores]
           /\ routed' = Append(routed, [url |-> pathParts, response |-> r.response])
    /\ UNCHANGED <<streamVars, globalFluid, inits, opens, creates, requests, gets>>

NextContainer ==
    \/ \E o \in Opens, config \in Configs : CallCreateContainer(o, config)
    \/ \E o \in Opens, dataObjects \in DataObjectLists, initial \in CreatedWith \cup {<<>>} :
          CallGetContainer(o, [dataObjects |-> dataObjects, initialDataObjects |-> initial])
    \/ \E o \in Opens : EagerStart(o)
    \/ \E o \in Opens, i \in 1..Cardinality(Ids), collide \in {"fail", "replace"} :
          EagerDone(o, i, collide)
    \/ \E o \in Opens : FinishOpen(o)
    \/ \E d \in Creates, o \in Opens, type \in Types, id \in Ids :
          CallCreateDataObject(d, o, type, id)
    \/ \E d \in Creates, collide \in {"fail", "replace"} : HandleCreate(d, collide)
    \/ \E d \in Creates : ResolveCreate(d)

\* every client has opened the newly created, empty object and is connected
InitConnected ==
    /\ life = [c \in Clients |-> "Ready"]
    /\ ink = [c \in Clients |-> initializeContent]
    /\ pendingOps = [c \in Clients |-> <<>>]
    /\ connected = [c \in Clients |-> TRUE]
    /\ epoch = [c \in Clients |-> 1]
    /\ outbox = [c \in Clients |-> <<>>]
    /\ log = <<>>
    /\ seen = [c \in Clients |-> 0]
    /\ storage = [blobs |-> NoBlobs, sequenceNumber |-> 0]
    /\ base = [c \in Clients |-> -1]
    /\ submitted = 0
    /\ failed = [c \in Clients |-> FALSE]
    /\ strays = 0

Next ==
    \/ \E c \in Clients : \E op \in OpsOf(c) : SubmitOp(c, op)
    \/ \E c \in Clients : Sequence(c)
    \/ \E c \in Clients : Deliver(c)
    \/ \E c \in Clients, kept \in 0..MaxOps : Disconnect(c, kept)
    \/ \E c \in Clients : Reconnect(c)

\* the replicated Stream over connections that drop and are re-established
Init ==
    /\ InitConnected
    /\ InitContainer
    /\ InitInitialized

Spec == Init /\ [][Next]_vars

\* the ordering service sequences every message that reaches it, every connected
\* client is handed every sequenced message, and a dropped connection is
\* re-established
Fairness ==
    \A c \in Clients :
        WF_vars(Sequence(c)) /\ WF_vars(Deliver(c)) /\ WF_vars(Reconnect(c))

\* the operation that starts the stroke of a client
Stroke(c) == [type |-> "down", id |-> LayerOf(c)]

\* the clients start strokes: what an operation holds plays no part in the way
\* it is sent, acknowledged and sent again
NextLive ==
    \/ \E c \in Clients : SubmitOp(c, Stroke(c))
    \/ \E c \in Clients : Sequence(c)
    \/ \E c \in Clients : Deliver(c)
    \/ \E c \in Clients, kept \in 0..MaxOps : Disconnect(c, kept)
    \/ \E c \in Clients : Reconnect(c)

SpecLive == Init /\ [][NextLive]_vars /\ Fairness

NextProtocol ==
    \/ \E c \in Clients : \E op \in OpsOf(c) : SubmitOp(c, op)
    \/ \E c \in Clients : Sequence(c)
    \/ \E contents \in {Garbage} : SequenceForeign(contents)
    \/ \E c \in Clients : Deliver(c)
    \/ \E c \in Clients, n \in 1..MaxOps : Misdeliver(c, n)

\* the replicated Stream fed by a delivery layer that can misorder, and by peers
\* that can send anything
SpecProtocol == Init /\ [][NextProtocol]_vars

NextSnapshot ==
    \/ \E c \in Clients : Create(c)
    \/ \E c \in Clients : StartLoad(c)
    \/ \E c \in Clients : FinishLoad(c)
    \/ \E c \in Clients : \E op \in OpsOf(c) : SubmitOp(c, op)
    \/ \E c \in Clients : Sequence(c)
    \/ \E c \in Clients : Deliver(c)
    \/ \E c \in Clients : TakeSnapshot(c)

\* the replicated Stream with snapshots taken and loaded by joining clients
InitNew ==
    /\ InitStream
    /\ InitContainer
    /\ InitInitialized

SpecSnapshot == InitNew /\ [][NextSnapshot]_vars

\* a document created and opened through fluid-static
SpecContainer == InitNew /\ [][NextContainer]_vars

\* the configurations of the opened container the data object calls are made on
OpenedConfigs ==
    {config \in Configs :
        /\ config.dataObjects = <<"X">>
        /\ config.initialDataObjects \in {<<>>, <<[id |-> "a", type |-> "X"]>>}}

\* the createContainer call of a configuration, resolved
Opened(config) ==
    LET entries == getRegistryEntries(config.dataObjects).entries
    IN  [IdleOpen EXCEPT !.pc = "resolved", !.kind = "createContainer",
                         !.dataObjects = config.dataObjects,
                         !.args = createContainerArgs(entries, config),
                         !.started = Len(config.initialDataObjects),
                         !.completed = DOMAIN config.initialDataObjects,
                         !.types = FluidContainer(entries).types]

\* the data stores the creation of a configuration leaves in the document
CreatedStores(config) ==
    [i \in DOMAIN config.initialDataObjects |->
        [id |-> config.initialDataObjects[i].id, type |-> config.initialDataObjects[i].type,
         by |-> "createContainer", call |-> 1]]

\* createContainer has resolved: the application holds the FluidContainer
InitOpened ==
    /\ InitStream
    /\ InitInitialized
    /\ \E config \in OpenedConfigs :
          /\ opens = [o \in Opens |-> IF o = 1 THEN Opened(config) ELSE IdleOpen]
          /\ doc = [attached |-> TRUE, stores |-> CreatedStores(config)]
    /\ creates = [d \in Calls |-> IdleCreate]
    /\ requests = <<>>
    /\ gets = [g \in Gets |-> IdleGet]
    /\ routed = <<>>

NextObjects ==
    \/ \E d \in Calls, o \in Opens, type \in Types, id \in Ids :
          CallCreateDataObject(d, o, type, id)
    \/ \E d \in Calls, collide \in {"fail", "replace"} : HandleCreate(d, collide)
    \/ \E d \in Calls : ResolveCreate(d)
    \/ \E g \in Gets, o \in Opens, id \in Ids : CallGetDataObject(g, o, id)
    \/ \E g \in Gets : FinishGetDataObject(g)

\* data objects created and looked up on an opened container
SpecObjects == InitOpened /\ [][NextObjects]_vars

NextRequests ==
    \/ \E pathParts \in Paths, collide \in {"fail", "replace"} : RouteRequest(pathParts, collide)

\* requests sent to an opened container
SpecRequests == InitOpened /\ [][NextRequests]_vars

\* the module as loaded, with no document yet
InitFluid ==
    /\ InitStream
    /\ InitContainer
    /\ InitGlobal

NextFluid ==
    \/ \E service \in Services \cup {"undefined"} : FluidInit(service)
    \/ \E o \in Opens, dataObjects \in DataObjectLists :
          CallCreateContainer(o, [dataObjects |-> dataObjects, initialDataObjects |-> <<>>])
    \/ \E o \in Opens, dataObjects \in DataObjectLists :
          CallGetContainer(o, [dataObjects |-> dataObjects, initialDataObjects |-> <<>>])
    \/ \E o \in Opens : FinishOpen(o)

\* the process-wide Fluid handle and the containers opened through it
SpecFluid == InitFluid /\ [][NextFluid]_vars

(***************************************************************************)
(* Properties of the replicated Stream.                                    *)
(***************************************************************************)
CurrentId(c) == <<c, epoch[c]>>

\* c processes the next sequenced message in this step
Processes(c) == seen'[c] = seen[c] + 1

\* C1: when the message a client processes is the echo of its own operation
\* (local = true), its ink is the same after processContent as before: the
\* operation, applied at submitOp, is not applied again.
C1_EchoLeavesInk ==
    [][\A c \in Clients :
          (Processes(c) /\ log[seen[c] + 1].clientId = CurrentId(c)) => ink'[c] = ink[c]]_vars

\* a client has processed the echo of its stylus-down and holds the layer once
C1_Witness ==
    \E c \in Clients :
        /\ Len(log) = 1 /\ seen[c] = 1
        /\ log[1].clientId = CurrentId(c)
        /\ log[1].contents.type = "down"
        /\ pendingOps[c] = <<>>
        /\ Len(ink[c].layers) = 1

\* the messages a reconnect under the next client id sends for a pending list
Resent(c, pending) ==
    [i \in 1..Len(pending) |-> Message(<<c, epoch[c] + 1>>, pending[i])]

\* C2: the reconnect step sends exactly the pending operations, each once, in
\* the order they were submitted, and the pending list is still those operations.
C2_ReconnectResendsPending ==
    [][\A c \in Clients :
          (~connected[c] /\ connected'[c]) =>
              /\ outbox'[c] = outbox[c] \o Resent(c, pendingOps[c])
              /\ pendingOps'[c] = pendingOps[c]]_vars

\* a client has reconnected with two different pending operations, both resent
C2_Witness ==
    \E c \in Clients :
        /\ connected[c] /\ epoch[c] = 2
        /\ Len(pendingOps[c]) = 2
        /\ pendingOps[c][1] # pendingOps[c][2]
        /\ outbox[c] = <<Message(CurrentId(c), pendingOps[c][1]),
                         Message(CurrentId(c), pendingOps[c][2])>>

\* every client has processed every sequenced message and none has an operation
\* pending or on its way
Quiescent ==
    \A c \in Clients :
        /\ life[c] = "Ready"
        /\ seen[c] = Len(log)
        /\ pendingOps[c] = <<>>
        /\ outbox[c] = <<>>

NoDrop == \A c \in Clients : connected[c] /\ epoch[c] = 1

\* C3: once every client has processed all operations up to the same
\* sequenceNumber and has nothing pending, all clients hold the same ink (stated
\* here for runs in which no connection dropped).
C3_Convergence ==
    (Quiescent /\ NoDrop) => \A c, d \in Clients : ink[c] = ink[d]

\* C10: a submitOp step leaves the operation applied to the ink of the client,
\* connected or not, adds it once to the pending list and, when connected, once
\* to the messages sent; nothing is sequenced or delivered in the step.
C10_SubmitAppliesLocally ==
    [][submitted' # submitted =>
          /\ log' = log /\ seen' = seen
          /\ \E c \in Clients, op \in Ops :
                /\ ink'[c] = Apply(ink[c], op)
                /\ pendingOps'[c] = Append(pendingOps[c], op)
                /\ outbox'[c] = IF connected[c]
                                THEN Append(outbox[c], Message(CurrentId(c), op))
                                ELSE outbox[c]
                /\ \A d \in Clients \ {c} :
                      ink'[d] = ink[d] /\ pendingOps'[d] = pendingOps[d]
                          /\ outbox'[d] = outbox[d]]_vars

\* a disconnected client shows a layer of an operation that was never sent
C10_Witness ==
    \E c \in Clients :
        /\ ~connected[c]
        /\ log = <<>> /\ outbox[c] = <<>>
        /\ Len(pendingOps[c]) = 1
        /\ pendingOps[c][1].type = "down"
        /\ ink[c] = Apply(emptySnapshot, pendingOps[c][1])

\* C11: across a disconnect and reconnect every submitted operation is reflected
\* exactly once on every client: the ordering service sequences no more messages
\* than operations were submitted and, once nothing is pending, exactly as many;
\* and a client that processes an operation it submitted itself, under whichever
\* of its identities, does not apply it again.
C11_ExactlyOnceAcrossReconnect ==
    /\ [](Len(log) <= submitted /\ (Quiescent => Len(log) = submitted))
    /\ [][\A c \in Clients :
             (Processes(c) /\ log[seen[c] + 1].clientId[1] = c) => ink'[c] = ink[c]]_vars

\* C12: the reconnect step leaves the ink of the client as it was, whatever the
\* pending list holds: it only sends.
C12_ReconnectLeavesInk ==
    [][\A c \in Clients : (~connected[c] /\ connected'[c]) => ink'[c] = ink[c]]_vars

\* a client has reconnected with a pending stylus-down, resent under its new
\* identity, and still shows the one layer it drew
C12_Witness ==
    \E c \in Clients :
        /\ connected[c] /\ epoch[c] = 2
        /\ Len(pendingOps[c]) = 1
        /\ pendingOps[c][1].type = "down"
        /\ outbox[c] = <<Message(CurrentId(c), pendingOps[c][1])>>
        /\ ink[c] = Apply(emptySnapshot, pendingOps[c][1])

\* C18: a client applies the sequenced operations in the order of their
\* sequenceNumbers: when it has applied an operation B of its own (at submitOp)
\* whose echo it has not processed yet, it has processed, and so applied, every
\* operation A of another client with A.sequenceNumber < B.sequenceNumber.
C18_AppliesInSequenceOrder ==
    \A c \in Clients : \A a, b \in DOMAIN log :
        (a < b /\ seen[c] < b /\ log[b].clientId = CurrentId(c) /\ log[a].clientId[1] # c)
            => a <= seen[c]

(***************************************************************************)
(* Properties of snapshots.                                                *)
(***************************************************************************)
\* C4: for the ink S of any Ready client, the tree of snapshotContent written
\* to storage and loaded by loadContent gives S again.
C4_RoundTrip ==
    \A c \in Clients :
        life[c] = "Ready" => loadContent(WriteTree(snapshotContent(ink[c]))) = ink[c]

\* a client has loaded the stored header of another client's ink of two layers
C4_Witness ==
    \E c, d \in Clients :
        /\ c # d
        /\ base[d] >= 0
        /\ storage.blobs = WriteTree(snapshotContent(ink[c]))
        /\ ink[d] = ink[c]
        /\ Len(ink[c].layers) = 2
        /\ DOMAIN ink[c].layerIndex = Keys

RECURSIVE Replay(_, _)
\* the ink of a client that started empty and applied the messages in order
Replay(snap, messages) ==
    IF messages = <<>> THEN snap
    ELSE Replay(Apply(snap, Head(messages).contents), Tail(messages))

\* c has submitted nothing: it only loads and processes
Reader(c) ==
    /\ pendingOps[c] = <<>>
    /\ outbox[c] = <<>>
    /\ \A i \in DOMAIN log : log[i].clientId[1] # c

\* C5: a client that loaded a stored snapshot and processed only the messages
\* sequenced after it holds the ink of a replay of every message from 0.
C5_SnapshotEqualsReplay ==
    \A c \in Clients :
        (life[c] = "Ready" /\ base[c] >= 0 /\ Reader(c)) =>
            ink[c] = Replay(emptySnapshot, SubSeq(log, 1, seen[c]))

\* the place of a state in the life of a shared object
Rank(l) == CASE l = "Uninitialized" -> 0 [] l = "Loading" -> 1 [] OTHER -> 2

HeaderOf(tree) == CHOOSE e \in tree.entries : e.path = snapshotFileName

\* C23: the encoding snapshotContent declares for the header is the one the
\* bytes are read back with: it declares utf-8, and the text loadContent gets by
\* decoding the stored bytes as utf-8 is the text snapshotContent gave.
C23_EncodingPreserved ==
    \A c \in Clients :
        life[c] = "Ready" =>
            LET tree == snapshotContent(ink[c])
            IN  /\ HeaderOf(tree).value.encoding = "utf-8"
                /\ toUtf8(fromBase64(StorageRead(WriteTree(tree), snapshotFileName)))
                      = HeaderOf(tree).value.contents

\* the stored header is that of a client with one layer, and another client
\* loaded it and has processed nothing since
C23_Witness ==
    \E c, d \in Clients :
        /\ c # d
        /\ life[c] = "Ready" /\ life[d] = "Ready"
        /\ storage.blobs = WriteTree(snapshotContent(ink[c]))
        /\ Len(ink[c].layers) = 1
        /\ base[d] = storage.sequenceNumber /\ seen[d] = base[d]
        /\ ink[d] = ink[c]

(***************************************************************************)
(* Properties of fluid-static.                                             *)
(***************************************************************************)
Repeats(entries) == \E i, j \in DOMAIN entries : i # j /\ entries[i] = entries[j]

\* C6: a createContainer whose dataObjects repeat a type does not resolve, and
\* when it has failed for the repeated type no entry of initialDataObjects has
\* been instantiated and no data object has been created.
C6_DuplicateFailsBeforeCreation ==
    \A o \in Opens :
        (opens[o].kind = "createContainer" /\ Repeats(opens[o].args.registryEntries)) =>
            /\ opens[o].pc # "resolved"
            /\ opens[o].error = "DuplicateType" =>
                  /\ opens[o].started = 0
                  /\ doc.stores = <<>>

\* the types a FluidContainer was constructed with
RegisteredTypes(o) == {opens[o].args.registryEntries[i] : i \in DOMAIN opens[o].args.registryEntries}

\* C7: a createDataObject with a type that is not registered is rejected with the
\* unregistered-type error, has sent no request and created no data object, and
\* the registered types are those of the construction.
C7_UnregisteredTypeRejected ==
    \A d \in Creates :
        (creates[d].pc # "idle" /\ creates[d].type \notin RegisteredTypes(creates[d].handle)) =>
            /\ creates[d].pc = "rejected"
            /\ creates[d].error = "UnregisteredType"
            /\ \A i \in DOMAIN requests : requests[i].call # d
            /\ \A i \in DOMAIN doc.stores :
                  doc.stores[i].by = "createDataObject" => doc.stores[i].call # d
            /\ opens[creates[d].handle].types = RegisteredTypes(creates[d].handle)

C7_Witness ==
    \E d \in Creates :
        /\ creates[d].pc = "rejected"
        /\ creates[d].error = "UnregisteredType"
        /\ creates[d].type = "Y"
        /\ opens[creates[d].handle].types = {"X"}
        /\ requests = <<>>

\* C8: a getContainer call instantiates no entry of an initial list: no data
\* store is created by it and it meets no creation error; the entries of the
\* creation are each created at most once.
C8_LoadRunsNoEagerList ==
    /\ \A o \in Opens :
          opens[o].kind = "getContainer" =>
              /\ opens[o].started = 0
              /\ opens[o].error # "CreateFailed"
    /\ \A i \in DOMAIN doc.stores : doc.stores[i].by # "getContainer"
    /\ \A i, j \in DOMAIN doc.stores :
          (doc.stores[i].by = "createContainer" /\ doc.stores[j].by = "createContainer"
              /\ doc.stores[i].id = doc.stores[j].id) => i = j

\* the document created with one initial data object has been opened by a
\* getContainer handed the same configuration, and holds that one data object
C8_Witness ==
    \E o, p \in Opens :
        /\ opens[o].kind = "createContainer" /\ opens[o].pc = "resolved"
        /\ Len(opens[o].args.initialDataObjects) = 1
        /\ opens[p].kind = "getContainer" /\ opens[p].pc = "resolved"
        /\ Len(doc.stores) = 1
        /\ doc.stores[1].id = opens[o].args.initialDataObjects[1].id

\* the data stores call o created from its initial list, in the order created
EagerStores(o) ==
    LET mine == SelectSeq(doc.stores, LAMBDA st : st.by = opens[o].kind /\ st.call = o)
    IN  [i \in 1..Len(mine) |-> [id |-> mine[i].id, type |-> mine[i].type]]

\* C9: the entries of the initial list are created one at a time and in list
\* order, and when createContainer has resolved every entry has been created and
\* getDataObject finds it.
C9_EagerInOrderBeforeResolve ==
    \A o \in Opens :
        opens[o].kind = "createContainer" =>
            /\ opens[o].started - Cardinality(opens[o].completed) <= 1
            /\ Len(EagerStores(o)) <= Len(opens[o].args.initialDataObjects)
            /\ EagerStores(o) =
                  SubSeq(opens[o].args.initialDataObjects, 1, Len(EagerStores(o)))
            /\ opens[o].pc = "resolved" =>
                  /\ opens[o].completed = DOMAIN opens[o].args.initialDataObjects
                  /\ \A i \in DOMAIN opens[o].args.initialDataObjects :
                        getDataObject(doc.stores, opens[o].args.initialDataObjects[i].id) # 0

\* createContainer has resolved with two initial data objects, found by
\* getDataObject without any createDataObject call
C9_Witness ==
    \E o \in Opens :
        /\ opens[o].kind = "createContainer" /\ opens[o].pc = "resolved"
        /\ Len(opens[o].args.initialDataObjects) = 2
        /\ \A d \in Creates : creates[d].pc = "idle"
        /\ \A id \in Ids : getDataObject(doc.stores, id) # 0

\* C13: two createDataObject calls for the same id that overlap in time do not
\* both create a data store: no two calls for one id are, at the same time, past
\* their creation and still before their return.
C13_CreationExclusivePerId ==
    \A d, e \in Calls :
        (d # e /\ creates[d].id = creates[e].id) =>
            ~(creates[d].pc = "created" /\ creates[e].pc = "created")

\* C14: a createDataObject call never replaces a live data object: in every
\* step, for an id that names a data object, getDataObject(id) resolves after the
\* step to the instance it resolved to before.
C14_LiveInstanceNotReplaced ==
    [][\A id \in Ids :
          getDataObject(doc.stores, id) # 0 =>
              getDataObject(doc'.stores, id) = getDataObject(doc.stores, id)]_vars

\* C15: a createDataObject call that returned has sent exactly one request, to
\* /create/{type}/{id}, and the instance it returned is the one getDataObject(id)
\* resolves to from then on.
C15_CreateReturnsLiveInstance ==
    \A d \in Calls :
        creates[d].pc = "resolved" =>
            /\ Cardinality({i \in DOMAIN requests : requests[i].call = d}) = 1
            /\ \A i \in DOMAIN requests :
                  requests[i].call = d =>
                      requests[i].url = <<"create", creates[d].type, creates[d].id>>
            /\ creates[d].instance # 0
            /\ getDataObject(doc.stores, creates[d].id) = creates[d].instance

\* C16: at no time are two loads of the same id in progress: a getDataObject
\* call for an id that another call is loading does not start a load of its own.
C16_OneLoadPerId ==
    \A g, h \in Gets :
        (g # h /\ gets[g].id = gets[h].id) =>
            ~(gets[g].pc = "loading" /\ gets[h].pc = "loading")

\* C19: a createContainer or getContainer call with an empty dataObjects list
\* has failed with the configuration error as soon as it is made: getContainer of
\* the service was never called for it, nothing was created and no FluidContainer
\* was constructed.
C19_EmptyDataObjectsFailsAtOnce ==
    \A o \in Opens :
        (opens[o].pc # "idle" /\ opens[o].dataObjects = <<>>) =>
            /\ opens[o].pc = "rejected"
            /\ opens[o].error = "NoDataObjects"
            /\ opens[o].args = NoArgs
            /\ opens[o].started = 0
            /\ opens[o].types = {}

\* a getContainer with no data object classes has failed on the existing
\* document, which still holds its one data object
C19_Witness ==
    \E o \in Opens :
        /\ opens[o].kind = "getContainer"
        /\ opens[o].dataObjects = <<>>
        /\ opens[o].error = "NoDataObjects"
        /\ doc.attached
        /\ Len(doc.stores) = 1

\* C20: globalFluid is set at most once: a Fluid.init made when it is set throws
\* and leaves it as it is, and a Fluid.createContainer or Fluid.getContainer made
\* while it is not set fails without a call to the service.
C20_GlobalFluidSetOnce ==
    [][/\ globalFluid # "none" => globalFluid' = globalFluid
       /\ (Len(inits') = Len(inits) + 1 /\ globalFluid # "none") =>
              inits'[Len(inits')].error = "AlreadyInitialized"
       /\ \A o \in Opens :
              (globalFluid = "none" /\ opens[o].pc = "idle" /\ opens'[o].pc # "idle") =>
                  /\ opens'[o].pc = "rejected"
                  /\ opens'[o].error = "NotInitialized"
                  /\ opens'[o].args = NoArgs
                  /\ doc' = doc]_vars

\* a call before any init has failed, the first init has set the handle, and an
\* init with another service has failed and left the first in place
C20_Witness ==
    /\ Len(inits) = 2
    /\ inits[1].error = "none"
    /\ inits[2].error = "AlreadyInitialized"
    /\ inits[2].service \in Services \ {inits[1].service}
    /\ globalFluid = inits[1].service
    /\ \E o \in Opens : opens[o].error = "NotInitialized"

(***************************************************************************)
(* Properties of the Stream under a faulty delivery layer or peer.         *)
(***************************************************************************)
\* C21: a message handed to a client out of sequenceNumber order (one it has
\* processed already, or one beyond the next) is not applied: the step leaves the
\* ink of every client as it was.
C21_OutOfOrderNotApplied ==
    [][strays' # strays => ink' = ink]_vars

\* C26: when a client processes a remote Operation message whose contents apply
\* cannot interpret, processContent throws to its caller and the ink is left as
\* it was: the failure is recorded, the operation does not pass as applied.
C26_UninterpretableSurfaced ==
    [][\A c \in Clients :
          (Processes(c) /\ ApplyThrows(log[seen[c] + 1].contents)
                /\ log[seen[c] + 1].clientId # CurrentId(c)) =>
              failed'[c] /\ ink'[c] = ink[c]]_vars

\* a client that drew a layer has processed an uninterpretable message of a peer
\* in its turn: the failure is recorded and the layer is still there
C26_Witness ==
    \E c \in Clients :
        /\ failed[c]
        /\ strays = 0
        /\ seen[c] = Len(log)
        /\ \E i \in DOMAIN log : log[i].contents = Garbage
        /\ Len(ink[c].layers) = 1

\* C24: a request creates a data store exactly when its path is
\* create/{type}/{id}: then the data store of that type and id is created and
\* the request is answered by the lookup of {id} (or the creation fails and
\* nothing changes); a request of any other path creates nothing and is answered
\* by the lookup of its first segment.
C24_CreateRouting ==
    [][Len(routed') = Len(routed) + 1 =>
          LET r == routed'[Len(routed')]
              url == r.url
          IN  IF Len(url) = 3 /\ url[1] = "create"
              THEN \/ r.response = -1 /\ doc' = doc
                   \/ /\ doc'.stores = Append(doc.stores, [id |-> url[3], type |-> url[2],
                                                           by |-> "request", call |-> 0])
                      /\ r.response = Len(doc'.stores)
              ELSE /\ doc' = doc
                   /\ r.response = Lookup(doc.stores, url[1])]_vars

\* a create request was answered with the data store it created, a request of
\* another first segment and one of four segments created nothing and found
\* nothing
C24_Witness ==
    /\ Len(doc.stores) = 1
    /\ \E i, j, k \in DOMAIN routed :
          /\ routed[i].url = <<"create", "X", "b">> /\ routed[i].response = 1
          /\ routed[j].url = <<"other", "X", "a">> /\ routed[j].response = 0
          /\ routed[k].url = <<"create", "X", "a", "b">> /\ routed[k].response = 0

\* the ids that resolve to a data object of the container
Resolving(stores) == {id \in Ids : Lookup(stores, id) # 0}

\* C25: once a FluidContainer is constructed its set of registered types never
\* changes, whatever createDataObject and getDataObject calls are made and
\* however they end, and an id that resolves in the container keeps resolving.
C25_TypesFixedIdsGrow ==
    [][/\ \A o \in Opens :
             opens[o].pc = "resolved" =>
                 opens'[o].pc = "resolved" /\ opens'[o].types = opens[o].types
       /\ Resolving(doc.stores) \subseteq Resolving(doc'.stores)]_vars

\* a createDataObject of an unregistered type was rejected, another created a
\* data object, one getDataObject found an object and one did not, and the
\* types are those of the construction
C25_Witness ==
    /\ \E o \in Opens :
          opens[o].pc = "resolved" /\ opens[o].types = FluidContainer(opens[o].args.registryEntries).types
    /\ \E d \in Calls : creates[d].pc = "rejected" /\ creates[d].error = "UnregisteredType"
    /\ \E d \in Calls : creates[d].pc = "resolved"
    /\ \E g \in Gets : gets[g].pc = "resolved"
    /\ \E g \in Gets : gets[g].pc = "rejected"
    /\ Resolving(doc.stores) # {}

\* client c has started its stroke: submitOp put the layer into its ink
Started(c) == LayerOf(c) \in DOMAIN ink[c].layerIndex

\* a message of client c carrying op has been sequenced
Sequenced(c, op) ==
    \E n \in DOMAIN log : log[n].clientId[1] = c /\ log[n].contents = op

\* nothing is pending any more: every submitted operation has been sequenced and
\* every client has processed every sequenced message
Settled ==
    /\ Len(log) >= submitted
    /\ \A c \in Clients : Started(c) => Sequenced(c, Stroke(c))
    /\ \A c \in Clients : pendingOps[c] = <<>> /\ outbox[c] = <<>> /\ seen[c] = Len(log)

\* C27: under a fair ordering service, fair delivery and a connection that is
\* re-established after every drop, the operations the clients submitted are
\* eventually all sequenced and echoed, and once the clients stop submitting the
\* pending list of every client becomes empty and stays empty.
C27_PendingDrains == <>[]Settled

\* a client whose connection dropped has reconnected, its resent operation was
\* sequenced and echoed, and nothing is pending
C27_Witness ==
    /\ Settled
    /\ submitted = MaxOps
    /\ \E c \in Clients :
          /\ epoch[c] = 2 /\ connected[c]
          /\ \E n \in DOMAIN log : log[n].clientId = <<c, 2>>

====
